---- MODULE Spec2Model ----
(***************************************************************************)
(* Model of sphinx_celery/apicheck.py: the APICheckBuilder life cycle      *)
(* (setup, init, write = build_coverage per domain + write_coverage,       *)
(* finish), module discovery over a package tree, and ignore-pattern       *)
(* compilation and matching.                                               *)
(*                                                                         *)
(* Python strings whose characters matter (module names, file names,       *)
(* directory names, regular expressions) are sequences of one-character    *)
(* strings, so that slicing, prefix tests and regex matching are computed  *)
(* and not assumed.                                                        *)
(***************************************************************************)
EXTENDS Integers, Sequences, FiniteSets, TLC

(***************************************************************************)
(* String helpers (str methods used by the source).                        *)
(***************************************************************************)
\* Optional values: Python's None, or a value
None == [some |-> FALSE, v |-> << >>]

Some(x) == [some |-> TRUE, v |-> x]

startswith(s, c) == Len(s) > 0 /\ s[1] = c

endswith(s, suffix) ==
    /\ Len(s) >= Len(suffix)
    /\ SubSeq(s, Len(s) - Len(suffix) + 1, Len(s)) = suffix

\* '.'.join(parts)
RECURSIVE DotJoin(_)
DotJoin(parts) ==
    IF Len(parts) = 0 THEN << >>
    ELSE IF Len(parts) = 1 THEN parts[1]
    ELSE parts[1] \o <<".">> \o DotJoin(Tail(parts))

\* name.split('.')
RECURSIVE DotSplitFrom(_, _, _)
DotSplitFrom(s, i, cur) ==
    IF i > Len(s) THEN <<cur>>
    ELSE IF s[i] = "." THEN <<cur>> \o DotSplitFrom(s, i + 1, << >>)
    ELSE DotSplitFrom(s, i + 1, Append(cur, s[i]))

DotSplit(s) == DotSplitFrom(s, 1, << >>)

\* m in s (substring test), used to state what the default pattern is for
Contains(s, sub) ==
    \E i \in 1..(Len(s) - Len(sub) + 1) : SubSeq(s, i, i + Len(sub) - 1) = sub

(***************************************************************************)
(* Regular expressions: the part of Python's re (sre_parse + matching)     *)
(* that the patterns of the model use.  Pattern alphabet: literal          *)
(* characters, '.', the quantifiers '*', '+', '?' (and their lazy forms),  *)
(* '|', '(' ')', '^', '$' and '\' before a punctuation character.          *)
(* Character classes, counted repeats, '(?...)' extensions and escapes of  *)
(* letters are outside the alphabet the inputs are drawn from.             *)
(*                                                                         *)
(* Parsing and matching run together: each parser takes the set `cur` of   *)
(* subject positions reached so far and returns                            *)
(*   ok   - the pattern text is well formed up to pos,                     *)
(*   pos  - index of the first pattern character not consumed,             *)
(*   ends - the subject positions reachable after the parsed part,         *)
(*   at   - the item is a zero-width anchor (cannot be repeated).          *)
(* Whether a match exists does not depend on greedy/lazy.                  *)
(***************************************************************************)
REPEAT_CHARS == {"*", "+", "?"}

Punctuation == {".", "$", "^", "|", "(", ")", "*", "+", "?", "\\", "_"}

ReFail(i) == [ok |-> FALSE, pos |-> i, ends |-> {}, at |-> FALSE]

\* the value of an expression, computed once: With(v, ...) are written as
\* Only({... r ... : r \in {v}})
Only(S) == CHOOSE x \in S : TRUE

RECURSIVE ParseSub(_, _, _, _)
RECURSIVE ParseSeq(_, _, _, _)
RECURSIVE ParseItem(_, _, _, _)
RECURSIVE ParseAtom(_, _, _, _)
RECURSIVE RepeatClosure(_, _, _, _)

\* a second branch r2 joined to the first r1
JoinBranches(r1, r2) ==
    IF ~r2.ok THEN r2
    ELSE [ok |-> TRUE, pos |-> r2.pos, ends |-> r1.ends \cup r2.ends, at |-> FALSE]

\* sre_parse._parse_sub: branches separated by '|'
ParseSub(p, i, s, cur) ==
    Only({ IF ~r1.ok THEN r1
           ELSE IF r1.pos <= Len(p) /\ p[r1.pos] = "|"
                THEN Only({JoinBranches(r1, r2) :
                             r2 \in {ParseSub(p, r1.pos + 1, s, cur)}})
                ELSE r1
           : r1 \in {ParseSeq(p, i, s, cur)} })

\* sre_parse._parse: a run of items, up to '|', ')' or the end
ParseSeq(p, i, s, cur) ==
    IF i > Len(p) \/ p[i] \in {"|", ")"}
    THEN [ok |-> TRUE, pos |-> i, ends |-> cur, at |-> FALSE]
    ELSE Only({ IF ~it.ok THEN it ELSE ParseSeq(p, it.pos, s, it.ends)
                : it \in {ParseItem(p, i, s, cur)} })

\* the atom a at i, followed by the quantifier at a.pos
Quantified(p, i, s, cur, a) ==
    LET q    == p[a.pos]
        lazy == a.pos + 1 <= Len(p) /\ p[a.pos + 1] = "?"
        np   == IF lazy THEN a.pos + 2 ELSE a.pos + 1
        e    == CASE q = "?" -> cur \cup a.ends
                  [] q = "*" -> RepeatClosure(p, i, s, cur)
                  [] q = "+" -> RepeatClosure(p, i, s, a.ends)
    IN [ok |-> TRUE, pos |-> np, ends |-> e, at |-> FALSE]

\* one atom and the quantifier that may follow it
ParseItem(p, i, s, cur) ==
    IF p[i] \in REPEAT_CHARS THEN ReFail(i)       \* nothing / multiple repeat
    ELSE Only({ IF ~a.ok THEN a
                ELSE IF a.pos <= Len(p) /\ p[a.pos] \in REPEAT_CHARS
                THEN IF a.at THEN ReFail(a.pos)   \* nothing to repeat
                     ELSE Quantified(p, i, s, cur, a)
                ELSE a
                : a \in {ParseAtom(p, i, s, cur)} })

\* positions reachable from X by zero or more further matches of the atom at i
RepeatClosure(p, i, s, X) ==
    Only({ IF Y = X THEN X ELSE RepeatClosure(p, i, s, Y)
           : Y \in {X \cup ParseAtom(p, i, s, X).ends} })

\* a group whose body parsed as g
CloseGroup(p, g) ==
    IF ~g.ok THEN g
    ELSE IF g.pos <= Len(p) /\ p[g.pos] = ")"
    THEN [ok |-> TRUE, pos |-> g.pos + 1, at |-> FALSE, ends |-> g.ends]
    ELSE ReFail(g.pos)                            \* missing ), unterminated

ParseAtom(p, i, s, cur) ==
    LET c == p[i] IN
    CASE c = "\\" ->
           IF i = Len(p) \/ p[i + 1] \notin Punctuation
           THEN ReFail(i)                         \* bad escape
           ELSE [ok |-> TRUE, pos |-> i + 2, at |-> FALSE,
                 ends |-> {j + 1 : j \in {k \in cur : k < Len(s) /\ s[k + 1] = p[i + 1]}}]
      [] c = "." ->
           [ok |-> TRUE, pos |-> i + 1, at |-> FALSE,
            ends |-> {j + 1 : j \in {k \in cur : k < Len(s)}}]
      [] c = "^" ->
           [ok |-> TRUE, pos |-> i + 1, at |-> TRUE, ends |-> cur \cap {0}]
      [] c = "$" ->
           [ok |-> TRUE, pos |-> i + 1, at |-> TRUE, ends |-> cur \cap {Len(s)}]
      [] c = "(" ->
           IF i + 1 <= Len(p) /\ p[i + 1] = "?" THEN ReFail(i)
           ELSE Only({CloseGroup(p, g) : g \in {ParseSub(p, i + 1, s, cur)}})
      [] OTHER ->
           [ok |-> TRUE, pos |-> i + 1, at |-> FALSE,
            ends |-> {j + 1 : j \in {k \in cur : k < Len(s) /\ s[k + 1] = c}}]

\* re.compile(p) succeeds (a ')' left over is "unbalanced parenthesis")
ReValid(p) ==
    \E r \in {ParseSub(p, 1, << >>, {0})} : r.ok /\ r.pos = Len(p) + 1

\* re.compile(p).match(s) is not None: a match starting at position 0
ReMatch(p, s) == ParseSub(p, 1, s, {0}).ends # {}

\* re.fullmatch(p, s) is not None: the whole of p matches the whole of s
ReFullMatch(p, s) == ReValid(p) /\ Len(s) \in ParseSub(p, 1, s, {0}).ends

(***************************************************************************)
(* Names, as Python strings.                                               *)
(***************************************************************************)
SITE    == <<"s", "i", "t", "e">>            \* directory holding the distribution
foo     == <<"f", "o", "o">>
sub     == <<"s", "u", "b">>
tests   == <<"t", "e", "s", "t", "s">>
nope    == <<"n", "o", "p", "e">>            \* no such directory in any tree
Foo     == <<"F", "o", "o">>                 \* a project name, before lower()

INIT_PY   == <<"_", "_", "i", "n", "i", "t", "_", "_", ".", "p", "y">>
BAR_PY    == <<"b", "a", "r", ".", "p", "y">>
BAZ_PY    == <<"b", "a", "z", ".", "p", "y">>
QUX_PY    == <<"q", "u", "x", ".", "p", "y">>
ZAP_PY    == <<"z", "a", "p", ".", "p", "y">>
TEST_X_PY == <<"t", "e", "s", "t", "_", "x", ".", "p", "y">>
NOTES_TXT == <<"n", "o", "t", "e", "s", ".", "t", "x", "t">>
DOT_PY    == <<".", "p", "y">>

foo_bar          == foo \o <<".">> \o <<"b", "a", "r">>
foo_sub          == foo \o <<".">> \o sub
foo_tests        == foo \o <<".">> \o tests
foo_tests_test_x == foo_tests \o <<".">> \o <<"t", "e", "s", "t", "_", "x">>

\* str.lower() on the characters the project names use
LowerChar(c) == IF c = "F" THEN "f" ELSE IF c = "N" THEN "n" ELSE c

lower(s) == [k \in 1..Len(s) |-> LowerChar(s[k])]

(***************************************************************************)
(* Module discovery.  A file system is the listing os.walk produces for    *)
(* SITE: a sequence, top-down, of [dirpath, filenames]; a path is the      *)
(* sequence of its components.                                             *)
(***************************************************************************)
InSeq(x, q) == \E k \in 1..Len(q) : q[k] = x

IsPrefix(a, b) == Len(a) <= Len(b) /\ SubSeq(b, 1, Len(a)) = a

HasPackageDir(tree, path) ==
    \E k \in 1..Len(tree) :
        tree[k].dirpath = path /\ InSeq(INIT_PY, tree[k].filenames)

\* importlib.import_module(name) for a package of the tree: every package
\* on the dotted path must have its __init__.py.  ok = FALSE is ImportError.
import_module(tree, name) ==
    LET parts == DotSplit(name) IN
    [ok   |-> \A n \in 1..Len(parts) :
                 HasPackageDir(tree, <<SITE>> \o SubSeq(parts, 1, n)),
     name |-> name,
     file |-> <<SITE>> \o parts \o <<INIT_PY>>]

\* variant: the marker file is not excluded
RECURSIVE ModuleFiles_WithMarker(_, _)
ModuleFiles_WithMarker(package, filenames) ==
    IF filenames = << >> THEN << >>
    ELSE LET filename == Head(filenames)
             joined   == DotJoin(<<package, filename>>)
             rest     == ModuleFiles_WithMarker(package, Tail(filenames))
         IN IF endswith(filename, DOT_PY)
            THEN <<SubSeq(joined, 1, Len(joined) - 3)>> \o rest
            ELSE rest

\* the names one os.walk step yields (lines 121-126)
RECURSIVE ModuleFiles(_, _)
ModuleFiles(package, filenames) ==
    IF filenames = << >> THEN << >>
    ELSE LET filename == Head(filenames)
             joined   == DotJoin(<<package, filename>>)
             rest     == ModuleFiles(package, Tail(filenames))
         IN IF endswith(filename, DOT_PY) /\ filename # INIT_PY
            THEN <<SubSeq(joined, 1, Len(joined) - 3)>> \o rest
            ELSE rest

WalkStep(fsabs, dist_name, entry) ==
    LET package == DotJoin(<<dist_name>>
                     \o SubSeq(entry.dirpath, Len(fsabs) + 1, Len(entry.dirpath)))
    IN IF InSeq(INIT_PY, entry.filenames)
       THEN <<package>> \o ModuleFiles(package, entry.filenames)
       ELSE << >>

RECURSIVE Walk(_, _, _, _)
Walk(tree, k, fsabs, dist_name) ==
    IF k > Len(tree) THEN << >>
    ELSE (IF IsPrefix(fsabs, tree[k].dirpath)
          THEN WalkStep(fsabs, dist_name, tree[k]) ELSE << >>)
         \o Walk(tree, k + 1, fsabs, dist_name)

\* variant: a failed import yields no modules and no error
find_python_modules_Swallow(tree, package) ==
    IF ~import_module(tree, package).ok
    THEN [error |-> "none", modules |-> << >>]
    ELSE [error |-> "none",
          modules |-> Walk(tree, 1, <<SITE, Head(DotSplit(package))>>,
                           Head(DotSplit(package)))]

\* find_python_modules(package): [error, modules]; the import runs when the
\* generator is first advanced
find_python_modules(tree, package) ==
    LET mod == import_module(tree, package) IN
    IF ~mod.ok THEN [error |-> "ImportError", modules |-> << >>]
    ELSE
    LET name  == mod.name
        path  == mod.file
        current_dist_depth == Len(DotSplit(name)) - 1
        dir   == SubSeq(path, 1, Len(path) - 1)                 \* dirname
        fsabs == SubSeq(dir, 1, Len(dir) - current_dist_depth)  \* pardir * depth
        dist_name == fsabs[Len(fsabs)]                          \* basename
    IN [error |-> "none", modules |-> Walk(tree, 1, fsabs, dist_name)]

(***************************************************************************)
(* Constants of apicheck.py.                                               *)
(***************************************************************************)
DEFAULT_IGNORE == << <<".", "*", "?", "\\", ".", "t", "e", "s", "t", "s", ".", "*">> >>

ERR_MISSING == "Undocumented Autodoc Modules"

OK_STATUS == "OK: All modules documented :o)"

MODULE_PREFIX == <<"-", " ">>                \* MODULE_FORMAT = '- {module}'

\* the domains for which APICheckBuilder.find_modules has an entry
find_modules == {"py"}

\* defaults registered by setup(app)
SetupDefaults ==
    [apicheck_ignore_modules |-> DEFAULT_IGNORE,
     apicheck_domains        |-> <<"py">>]

(***************************************************************************)
(* State.                                                                  *)
(***************************************************************************)
VARIABLES
    fs,              \* the file system under SITE, as os.walk lists it
    domaindata,      \* env.domaindata[d]['modules'] keys, per domain
    config,          \* conf.py values (options) and, after setup, defaults
    pc,              \* position in the builder life cycle
    idx,             \* position of write()'s loop over check_domains
    ignore_patterns, \* self.ignore_patterns
    check_domains,   \* self.check_domains
    check_package,   \* self.check_package
    undocumented,    \* self.undocumented: the defaultdict(list)
    statuscode,      \* app.statuscode
    stdout,          \* what print() wrote
    warnings,        \* what self.warn() reported
    picklefile,      \* <outdir>/apicheck.pickle
    error,           \* the exception that ended the run, or "none"
    calls,           \* number of build_coverage invocations, per domain
    found            \* result of a direct find_python_modules call

vars == <<fs, domaindata, config, pc, idx, ignore_patterns, check_domains,
          check_package, undocumented, statuscode, stdout, warnings,
          picklefile, error, calls, found>>

Domains == {"py", "js"}

EmptyDict == [d \in {} |-> << >>]

\* variant: every access starts the entry afresh
Touch_Reset(u, d) ==
    [x \in (DOMAIN u) \cup {d} |-> IF x = d THEN << >> ELSE u[x]]

\* defaultdict.__getitem__: a missing key is created with an empty list
Touch(u, d) ==
    IF d \in DOMAIN u THEN u
    ELSE [x \in (DOMAIN u) \cup {d} |-> IF x = d THEN << >> ELSE u[x]]

(***************************************************************************)
(* Ignore patterns (lines 147-164).                                        *)
(***************************************************************************)
Anchored(regex) ==
    LET r1 == IF ~startswith(regex, "^") THEN <<"^">> \o regex ELSE regex
    IN IF ~endswith(r1, <<"$">>) THEN r1 \o <<"$">> ELSE r1

\* compile_regex: the compiled pattern, or None (after a warning)
compile_regex(regex) ==
    LET r == Anchored(regex) IN
    IF ReValid(r) THEN Some(r) ELSE None

compile_regexes(regexes) ==
    [k \in 1..Len(regexes) |-> compile_regex(regexes[k])]

\* the warnings compile_regexes emits: one per pattern that does not compile
RECURSIVE compile_warnings(_)
compile_warnings(regexes) ==
    IF regexes = << >> THEN << >>
    ELSE (IF ReValid(Anchored(Head(regexes))) THEN << >>
          ELSE <<[msg |-> "Invalid regex", regex |-> Anchored(Head(regexes))]>>)
         \o compile_warnings(Tail(regexes))

\* is_ignored_module: any(regex.match(module) for regex in ignore_patterns);
\* "raise" is the AttributeError of None.match
RECURSIVE is_ignored_module(_, _)
is_ignored_module(patterns, module) ==
    IF patterns = << >> THEN "no"
    ELSE IF ~Head(patterns).some THEN "raise"
    ELSE IF ReMatch(Head(patterns).v, module) THEN "yes"
    ELSE is_ignored_module(Tail(patterns), module)

(***************************************************************************)
(* find_undocumented, as list.extend consumes it: the names appended       *)
(* before the generator ends or raises, and the exception if any.          *)
(***************************************************************************)
RECURSIVE Undocumented(_, _, _, _)
Undocumented(mods, documented, patterns, acc) ==
    IF mods = << >> THEN [error |-> "none", modules |-> acc]
    ELSE LET mod == Head(mods) IN
         IF mod \in documented
         THEN Undocumented(Tail(mods), documented, patterns, acc)
         ELSE LET ign == is_ignored_module(patterns, mod) IN
              IF ign = "raise" THEN [error |-> "AttributeError", modules |-> acc]
              ELSE IF ign = "yes"
              THEN Undocumented(Tail(mods), documented, patterns, acc)
              ELSE Undocumented(Tail(mods), documented, patterns, Append(acc, mod))

find_undocumented(tree, package, domain, documented, patterns) ==
    IF domain \notin find_modules
    THEN [error |-> "KeyError", modules |-> << >>]
    ELSE Only({ IF r.error # "none" THEN r
                ELSE Undocumented(r.modules, documented, patterns, << >>)
                : r \in {find_python_modules(tree, package)} })

(***************************************************************************)
(* Report formatting (lines 190-205).                                      *)
(***************************************************************************)
format_undocumented_module(module) == MODULE_PREFIX \o module

format_undocumented_domain(u, domain) ==
    [domain  |-> domain,
     modules |-> [k \in 1..Len(Touch(u, domain)[domain]) |->
                     format_undocumented_module(Touch(u, domain)[domain][k])]]

format_undocumented_domains(u, domains) ==
    [text    |-> ERR_MISSING,
     domains |-> [k \in 1..Len(domains) |-> format_undocumented_domain(u, domains[k])]]

\* the keys the formatting leaves in the defaultdict
RECURSIVE TouchAll(_, _)
TouchAll(u, domains) ==
    IF domains = << >> THEN u ELSE TouchAll(Touch(u, Head(domains)), Tail(domains))

as_dict(u) == [undocumented |-> u]

(***************************************************************************)
(* Builder methods as functions of the state they read.                    *)
(***************************************************************************)
\* variant: the default is used only when the configured list is empty
IgnoreRegexes_DefaultIfEmpty(ignore_modules) ==
    IF ignore_modules = << >> THEN DEFAULT_IGNORE ELSE ignore_modules

\* variant: the configured list replaces the default
IgnoreRegexes_Override(ignore_modules) == ignore_modules

\* init, lines 138-140: the configured list, then the built-in default
IgnoreRegexes(ignore_modules) == ignore_modules \o DEFAULT_IGNORE

\* init, lines 142-143
ResolvePackageName(cfg) ==
    IF cfg.apicheck_package.some /\ cfg.apicheck_package.v # << >>
    THEN cfg.apicheck_package.v
    ELSE lower(cfg.project)

\* variant: the entry is assigned, not extended
build_coverage_Assign(u, domain, names) ==
    [Touch(u, domain) EXCEPT ![domain] = names]

\* build_coverage: self.undocumented[domain].extend(names)
build_coverage(u, domain, names) ==
    [Touch(u, domain) EXCEPT ![domain] = @ \o names]

\* write_coverage, line 183: any(self.undocumented.values())
any_undocumented(u) == \E d \in DOMAIN u : u[d] # << >>

\* variant: failure is signalled with status code 1
coverage_statuscode_One(status, old) == IF status THEN 1 ELSE old

\* write_coverage, lines 184-185: the status code it leaves
coverage_statuscode(status, old) == IF status THEN 2 ELSE old

\* write_coverage, lines 186-188: what it prints
coverage_output(status, u, domains) ==
    IF status THEN format_undocumented_domains(u, domains)
    ELSE [text |-> OK_STATUS, domains |-> << >>]

\* variant: an existing cache file is kept
pickle_dump_KeepExisting(old, obj) ==
    IF old.exists THEN old ELSE [exists |-> TRUE, obj |-> obj]

\* finish: open(picklepath, 'wb') truncates, pickle.dump writes one object
pickle_dump(old, obj) == [exists |-> TRUE, obj |-> obj]

(***************************************************************************)
(* Actions.                                                                *)
(***************************************************************************)
\* setup(app): the builder and the configuration defaults are registered
Setup ==
    /\ pc = "setup"
    /\ config' = [config EXCEPT
          !.apicheck_ignore_modules =
              IF @.some THEN @ ELSE Some(SetupDefaults.apicheck_ignore_modules),
          !.apicheck_domains =
              IF @.some THEN @ ELSE Some(SetupDefaults.apicheck_domains)]
    /\ pc' = "init"
    /\ UNCHANGED <<fs, domaindata, idx, ignore_patterns, check_domains,
                   check_package, undocumented, statuscode, stdout, warnings,
                   picklefile, error, calls, found>>

\* APICheckBuilder.init
BuilderInit ==
    /\ pc = "init"
    /\ LET regexes == IgnoreRegexes(config.apicheck_ignore_modules.v) IN
       /\ ignore_patterns' = compile_regexes(regexes)
       /\ warnings' = warnings \o compile_warnings(regexes)
    /\ check_domains' = config.apicheck_domains.v
    /\ check_package' = ResolvePackageName(config)
    /\ undocumented' = EmptyDict
    /\ idx' = 1
    /\ pc' = "write"
    /\ UNCHANGED <<fs, domaindata, config, statuscode, stdout, picklefile,
                   error, calls, found>>

\* one iteration of write()'s loop: build_coverage(check_domains[idx])
BuildCoverage ==
    /\ pc = "write"
    /\ idx <= Len(check_domains)
    /\ LET domain == check_domains[idx]
           r == find_undocumented(fs, check_package, domain,
                                  domaindata[domain], ignore_patterns)
       IN /\ undocumented' = build_coverage(undocumented, domain, r.modules)
          /\ calls' = [calls EXCEPT ![domain] = @ + 1]
          /\ error' = r.error
          /\ pc' = IF r.error = "none" THEN "write" ELSE "aborted"
          /\ idx' = IF r.error = "none" THEN idx + 1 ELSE idx
    /\ UNCHANGED <<fs, domaindata, config, ignore_patterns, check_domains,
                   check_package, statuscode, stdout, warnings, picklefile,
                   found>>

\* the end of write(): write_coverage(check_domains)
WriteCoverage ==
    /\ pc = "write"
    /\ idx = Len(check_domains) + 1
    /\ LET status == any_undocumented(undocumented) IN
       /\ statuscode' = coverage_statuscode(status, statuscode)
       /\ stdout' = Append(stdout,
                           coverage_output(status, undocumented, check_domains))
       /\ undocumented' = IF status THEN TouchAll(undocumented, check_domains)
                          ELSE undocumented
    /\ pc' = "finish"
    /\ UNCHANGED <<fs, domaindata, config, idx, ignore_patterns, check_domains,
                   check_package, warnings, picklefile, error, calls, found>>

\* APICheckBuilder.finish
Finish ==
    /\ pc = "finish"
    /\ picklefile' = pickle_dump(picklefile, as_dict(undocumented))
    /\ pc' = "done"
    /\ UNCHANGED <<fs, domaindata, config, idx, ignore_patterns, check_domains,
                   check_package, undocumented, statuscode, stdout, warnings,
                   error, calls, found>>

\* a direct call of find_python_modules(check_package)
Discover ==
    /\ pc = "call"
    /\ found' = find_python_modules(fs, check_package)
    /\ pc' = "returned"
    /\ UNCHANGED <<fs, domaindata, config, idx, ignore_patterns, check_domains,
                   check_package, undocumented, statuscode, stdout, warnings,
                   picklefile, error, calls>>

(***************************************************************************)
(* Inputs.                                                                 *)
(***************************************************************************)
MaxPatterns == 2      \* longest configured apicheck_ignore_modules list
MaxDomains  == 2      \* longest configured apicheck_domains list
MaxModules  == 2      \* most module files in one directory (discovery)

SeqsUpTo(S, n) == UNION {[1..k -> S] : k \in 0..n}

Dir(path, filenames) == [dirpath |-> path, filenames |-> filenames]

\* foo/__init__.py, foo/bar.py, foo/tests/test_x.py
TreeNoTestsPackage ==
    << Dir(<<SITE, foo>>, <<INIT_PY, BAR_PY>>),
       Dir(<<SITE, foo, tests>>, <<TEST_X_PY>>) >>

\* the same with foo/tests/__init__.py
TreeTestsPackage ==
    << Dir(<<SITE, foo>>, <<INIT_PY, BAR_PY>>),
       Dir(<<SITE, foo, tests>>, <<INIT_PY, TEST_X_PY>>) >>

\* patterns a conf.py may list
P_NAME     == foo_bar                                   \* a module name
P_ALT      == <<"f", "o", "o", "|", "n", "o", "p", "e">> \* an alternation
P_BAD      == <<"f", "o", "o", "(">>                     \* does not compile
P_ANCHORED == <<"^", "f", "o", "o", "$">>                \* anchored already

PatternPool == {P_NAME, P_ALT, P_BAD, P_ANCHORED}

PackageChoices ==
    { [apicheck_package |-> None,       project |-> Foo],
      [apicheck_package |-> Some(foo),  project |-> Foo],
      [apicheck_package |-> Some(nope), project |-> Foo] }

AbsentPickle == [exists |-> FALSE, obj |-> as_dict(EmptyDict)]

StalePickle  == [exists |-> TRUE, obj |-> as_dict([d \in {"py"} |-> <<foo_bar, nope>>])]

NotCalled == [error |-> "pending", modules |-> << >>]

InitOver(Trees, Documented, Ignores, DomainLists, Packages, Codes, Pickles, start) ==
    /\ fs \in Trees
    /\ \E doc \in Documented :
           domaindata = [d \in Domains |-> IF d = "py" THEN doc ELSE {}]
    /\ \E ign \in Ignores, doms \in DomainLists, pk \in Packages :
           config = [apicheck_ignore_modules |-> ign,
                     apicheck_domains        |-> doms,
                     apicheck_package        |-> pk.apicheck_package,
                     project                 |-> pk.project]
    /\ statuscode \in Codes
    /\ picklefile \in Pickles
    /\ pc = start
    /\ idx = 0
    /\ ignore_patterns = << >>
    /\ check_domains = << >>
    /\ check_package = << >>
    /\ undocumented = EmptyDict
    /\ stdout = << >>
    /\ warnings = << >>
    /\ error = "none"
    /\ calls = [d \in Domains |-> 0]
    /\ found = NotCalled

\* the builder life cycle, over domain lists, packages and earlier state
Init ==
    InitOver({TreeNoTestsPackage, TreeTestsPackage},
             {{}, {foo}, {foo, foo_bar}},
             {None, Some(<< >>), Some(<<P_BAD>>), Some(<<P_ALT>>)},
             {None} \cup {Some(q) : q \in SeqsUpTo(Domains, MaxDomains)},
             PackageChoices, {0, 1}, {AbsentPickle, StalePickle}, "setup")

Next == Setup \/ BuilderInit \/ BuildCoverage \/ WriteCoverage \/ Finish

Spec == Init /\ [][Next]_vars

\* the builder life cycle for domain 'py' of package foo, over ignore lists
InitFilter ==
    InitOver({TreeNoTestsPackage, TreeTestsPackage},
             SUBSET {foo, foo_bar, foo_tests},
             {None} \cup {Some(q) : q \in SeqsUpTo(PatternPool, MaxPatterns)},
             {Some(<<"py">>)},
             {[apicheck_package |-> Some(foo), project |-> Foo]},
             {0}, {AbsentPickle}, "setup")

SpecFilter == InitFilter /\ [][Next]_vars

\* direct calls of find_python_modules, over package trees
ModulePool == <<BAR_PY, BAZ_PY, QUX_PY, ZAP_PY>>

RootFileLists ==
    { pre \o SubSeq(ModulePool, 1, n) \o post :
        pre \in {<< >>, <<INIT_PY>>}, n \in 0..MaxModules,
        post \in {<< >>, <<NOTES_TXT>>} }

SubDirChoices ==
    { << >> } \cup
    { <<Dir(<<SITE, foo, sub>>, files)>> :
        files \in {<<INIT_PY>>, <<QUX_PY, INIT_PY>>, <<QUX_PY>>} }

DiscoveryTrees ==
    { <<Dir(<<SITE, foo>>, files)>> \o subdir :
        files \in RootFileLists, subdir \in SubDirChoices }

InitDiscovery ==
    /\ fs \in DiscoveryTrees
    /\ check_package \in {foo, foo_sub, nope}
    /\ pc = "call"
    /\ domaindata = [d \in Domains |-> {}]
    /\ config = [apicheck_ignore_modules |-> None, apicheck_domains |-> None,
                 apicheck_package |-> None, project |-> Foo]
    /\ statuscode = 0
    /\ picklefile = AbsentPickle
    /\ idx = 0
    /\ ignore_patterns = << >>
    /\ check_domains = << >>
    /\ undocumented = EmptyDict
    /\ stdout = << >>
    /\ warnings = << >>
    /\ error = "none"
    /\ calls = [d \in Domains |-> 0]
    /\ found = NotCalled

NextDiscovery == Discover

SpecDiscovery == InitDiscovery /\ [][NextDiscovery]_vars

(***************************************************************************)
(* Vocabulary of the properties.                                           *)
(***************************************************************************)
\* the build phase is over: write()'s loop has run to its end
BuildDone ==
    \/ pc \in {"finish", "done"}
    \/ pc = "write" /\ idx = Len(check_domains) + 1

Range(q) == {q[k] : k \in 1..Len(q)}

\* what discovery yields for the configured package
DiscoveredNames == find_python_modules(fs, check_package).modules

\* the ignore list L in force: the configured strings and the default
PatternList == config.apicheck_ignore_modules.v \o DEFAULT_IGNORE

InvalidAt(k) == ~ReValid(Anchored(PatternList[k]))

HasInvalidPattern == \E k \in 1..Len(PatternList) : InvalidAt(k)

\* some pattern of L matches the whole of m
FullyMatched(m) == \E k \in 1..Len(PatternList) : ReFullMatch(PatternList[k], m)

DOT_TESTS == <<".">> \o tests

Occurrences(q, x) == Cardinality({k \in 1..Len(q) : q[k] = x})

RECURSIVE Repeat(_, _)
Repeat(q, n) == IF n = 0 THEN << >> ELSE q \o Repeat(q, n - 1)

\* C1: after a build phase that invoked build_coverage once for 'py', a
\* name is in the report for 'py' iff discovery yielded it, it is not
\* documented, and no pattern of the list fully matches it.
C1_ReportIsDifference ==
    (BuildDone /\ calls["py"] = 1) =>
        \A m \in Range(DiscoveredNames) \cup Range(undocumented["py"]) :
            InSeq(m, undocumented["py"])
                <=> /\ InSeq(m, DiscoveredNames)
                    /\ m \notin domaindata["py"]
                    /\ ~FullyMatched(m)

\* the report a run over the list L without its invalid patterns produces
ReportWithoutInvalid ==
    LET valid == SelectSeq(compile_regexes(PatternList), LAMBDA c : c.some)
    IN Undocumented(DiscoveredNames, domaindata["py"], valid, << >>).modules

\* C2: with an invalid regex in the list, init warns, the run never aborts,
\* and it ends with the report, status code and cache file of the run whose
\* list omits the invalid pattern.
C2_InvalidRegexIsOmitted ==
    (HasInvalidPattern /\ pc \notin {"setup", "init"}) =>
        /\ warnings # << >>
        /\ pc # "aborted"
        /\ pc = "done" =>
              /\ undocumented["py"] = ReportWithoutInvalid
              /\ statuscode = (IF ReportWithoutInvalid # << >> THEN 2 ELSE 0)
              /\ picklefile.obj.undocumented["py"] = ReportWithoutInvalid

\* C3: whatever apicheck_ignore_modules is, the default pattern is among
\* the active patterns after init, and no name containing '.tests' is ever
\* in the report.
C3_DefaultAlwaysActive ==
    /\ pc \notin {"setup", "init"} =>
           InSeq(Some(Anchored(DEFAULT_IGNORE[1])), ignore_patterns)
    /\ \A d \in DOMAIN undocumented :
           \A k \in 1..Len(undocumented[d]) :
               ~Contains(undocumented[d][k], DOT_TESTS)

\* a run with an explicit list lacking the default met an undocumented test
\* package and left it out of the report
C3_Witness ==
    /\ pc = "done"
    /\ config.apicheck_ignore_modules \in {Some(<< >>), Some(<<P_NAME>>)}
    /\ InSeq(foo_tests, DiscoveredNames)
    /\ foo_tests \notin domaindata["py"]
    /\ ~InSeq(foo_tests, undocumented["py"])

\* the scenario of C4, with or without foo/tests/__init__.py
C4_Scenario ==
    /\ fs \in {TreeNoTestsPackage, TreeTestsPackage}
    /\ domaindata["py"] = {foo}
    /\ config.apicheck_ignore_modules = Some(<< >>)
    /\ config.apicheck_domains = Some(<<"py">>)

\* C4 as stated: with apicheck_ignore_modules = [] the default is overridden,
\* the report for 'py' holds foo.bar, foo.tests and foo.tests.test_x, and the
\* status code is 2.
C4_EmptyListOverridesDefault ==
    (C4_Scenario /\ fs = TreeNoTestsPackage /\ pc = "done") =>
        /\ InSeq(foo_bar, undocumented["py"])
        /\ InSeq(foo_tests, undocumented["py"])
        /\ InSeq(foo_tests_test_x, undocumented["py"])
        /\ statuscode = 2

\* C4 amended: with apicheck_ignore_modules = [] the default stays active;
\* the run completes, the report for 'py' is exactly [foo.bar] and the
\* status code is 2.
C4_EmptyListKeepsDefault ==
    C4_Scenario =>
        /\ pc # "aborted"
        /\ pc = "done" =>
              /\ undocumented = [d \in {"py"} |-> <<foo_bar>>]
              /\ statuscode = 2

C4_Witness ==
    /\ C4_Scenario
    /\ fs = TreeNoTestsPackage
    /\ pc = "done"
    /\ undocumented["py"] = <<foo_bar>>

\* some discovered module of a checked domain is undocumented and not ignored
CoverageGap ==
    \E d \in Range(check_domains) \cap find_modules :
        \E m \in Range(DiscoveredNames) :
            m \notin domaindata[d] /\ is_ignored_module(ignore_patterns, m) = "no"

\* the failure report: the title, then per domain one '- <module>' per name
IsFailureReport(out, u, domains) ==
    /\ out.text = ERR_MISSING
    /\ Len(out.domains) = Len(domains)
    /\ \A k \in 1..Len(domains) :
           /\ out.domains[k].domain = domains[k]
           /\ Len(out.domains[k].modules) = Len(u[domains[k]])
           /\ \A j \in 1..Len(u[domains[k]]) :
                  out.domains[k].modules[j] = <<"-", " ">> \o u[domains[k]][j]

\* C5: write_coverage sets the status code to 2 and prints the failure
\* report when some domain's list is non-empty; otherwise it prints the
\* success line and leaves the status code as it was.  At the end of a run
\* the status code is 2 iff some discovered module is a coverage gap.
C5_StatusReflectsCoverage ==
    /\ [][(pc = "write" /\ pc' = "finish") =>
            IF \E d \in DOMAIN undocumented : Len(undocumented[d]) > 0
            THEN /\ statuscode' = 2
                 /\ Len(stdout') = Len(stdout) + 1
                 /\ IsFailureReport(stdout'[Len(stdout')], undocumented, check_domains)
            ELSE /\ statuscode' = statuscode
                 /\ stdout' = Append(stdout, [text |-> OK_STATUS, domains |-> << >>])
          ]_vars
    /\ [](pc = "done" => (statuscode = 2 <=> CoverageGap))

C5_Witness ==
    /\ pc = "done"
    /\ statuscode = 2
    /\ stdout # << >>
    /\ stdout[1].text = ERR_MISSING
    /\ undocumented["py"] # << >>

\* C6: once finish has run the cache file exists and holds exactly
\* {"undocumented": R}, R the report, whatever the file held before and
\* whether or not R has entries.
C6_CacheFileHoldsReport ==
    pc = "done" =>
        picklefile = [exists |-> TRUE, obj |-> [undocumented |-> undocumented]]

C6_Witness ==
    /\ pc = "done"
    /\ "py" \in DOMAIN undocumented
    /\ undocumented["py"] = << >>
    /\ picklefile.exists
    /\ picklefile.obj.undocumented["py"] = << >>

\* the configured package does not resolve
Unresolvable == ~import_module(fs, ResolvePackageName(config)).ok

\* C7 as stated: an unresolvable package fails the run at setup or init:
\* the build phase is not reached, build_coverage is entered for no domain,
\* nothing is printed.
C7_FailsBeforeBuild ==
    Unresolvable =>
        /\ pc \notin {"write", "finish", "done"}
        /\ \A d \in Domains : calls[d] = 0
        /\ stdout = << >>

\* C7 amended: with an unresolvable package setup and init complete; the
\* ImportError is raised inside the first build_coverage call for 'py' and
\* ends the run there: no name is ever reported, nothing is printed and the
\* cache file is not written.
C7_FailsInFirstBuild ==
    /\ [](Unresolvable =>
            /\ pc \in {"setup", "init"} => error = "none"
            /\ \A d \in DOMAIN undocumented : undocumented[d] = << >>
            /\ calls["py"] > 0 =>
                  /\ calls["py"] = 1
                  /\ pc = "aborted"
                  /\ error = "ImportError"
                  /\ stdout = << >>)
    /\ [][(Unresolvable /\ (pc = "aborted" \/ pc' = "aborted")) =>
              picklefile' = picklefile]_vars

C7_Witness ==
    /\ Unresolvable
    /\ calls["py"] = 1
    /\ pc = "aborted"
    /\ error = "ImportError"
    /\ "py" \in DOMAIN undocumented

\* the directory of package P, and what the tree holds there
PackageDir(P) == <<SITE>> \o DotSplit(P)

FilesOf(P) ==
    IF \E k \in 1..Len(fs) : fs[k].dirpath = PackageDir(P)
    THEN fs[CHOOSE k \in 1..Len(fs) : fs[k].dirpath = PackageDir(P)].filenames
    ELSE << >>

HasSubdirectories(P) ==
    \E k \in 1..Len(fs) :
        fs[k].dirpath # PackageDir(P) /\ IsPrefix(PackageDir(P), fs[k].dirpath)

IsModuleFile(f) == endswith(f, DOT_PY) /\ f # INIT_PY

\* P, then P.<stem> for each .py file of P's directory other than the marker
ExpectedNames(P) ==
    LET py == SelectSeq(FilesOf(P), IsModuleFile)
    IN <<P>> \o [k \in 1..Len(py) |->
                   P \o <<".">> \o SubSeq(py[k], 1, Len(py[k]) - 3)]

NoDuplicates(q) == \A j, k \in 1..Len(q) : q[j] = q[k] => j = k

ParentName(m) ==
    LET parts == DotSplit(m) IN DotJoin(SubSeq(parts, 1, Len(parts) - 1))

\* a directory without the marker file contributes no name
UnmarkedContributeNothing ==
    \A k \in 1..Len(fs) :
        ~InSeq(INIT_PY, fs[k].filenames) =>
            \A m \in Range(found.modules) :
                /\ m # DotJoin(Tail(fs[k].dirpath))
                /\ ParentName(m) # DotJoin(Tail(fs[k].dirpath))

\* P is an importable package without subdirectories
FlatPackage(P) ==
    /\ import_module(fs, P).ok
    /\ ~HasSubdirectories(P)

\* C8 as stated: for every package P with the marker, no subdirectories and
\* N other .py files, discovery yields exactly the N+1 names P, P.<file>...
C8_FlatPackageYieldsNPlusOne ==
    pc = "returned" =>
        /\ FlatPackage(check_package) =>
              /\ found.error = "none"
              /\ found.modules = ExpectedNames(check_package)
              /\ NoDuplicates(found.modules)
        /\ UnmarkedContributeNothing

\* C8 amended: the same for every top-level package P (a name without dots)
C8_TopLevelFlatPackageYieldsNPlusOne ==
    pc = "returned" =>
        /\ (FlatPackage(check_package) /\ Len(DotSplit(check_package)) = 1) =>
              /\ found.error = "none"
              /\ found.modules = ExpectedNames(check_package)
              /\ Len(found.modules) =
                    1 + Cardinality({k \in 1..Len(FilesOf(check_package)) :
                                       IsModuleFile(FilesOf(check_package)[k])})
              /\ NoDuplicates(found.modules)
        /\ UnmarkedContributeNothing

C8_Witness ==
    /\ pc = "returned"
    /\ check_package = foo
    /\ FlatPackage(foo)
    /\ InSeq(NOTES_TXT, FilesOf(foo))
    /\ Len(found.modules) = 3

\* C9 as stated: for every configured domain list, the report is empty after
\* init, and when write_coverage runs each listed domain has been appended
\* to by exactly one build_coverage call.
C9_OncePerDomain ==
    /\ (pc = "write" /\ idx = 1) => undocumented = EmptyDict
    /\ BuildDone => \A d \in Range(check_domains) : calls[d] = 1

\* C9 amended: the report is empty after init; build_coverage is invoked once
\* per entry of the domain list (once per domain when no domain is listed
\* twice), never more, and all of it before write_coverage; write_coverage
\* and finish leave the report as the build phase left it.
C9_OncePerListEntry ==
    /\ []((pc = "write" /\ idx = 1) =>
            (undocumented = EmptyDict /\ \A d \in Domains : calls[d] = 0))
    /\ [](\A d \in Domains : calls[d] <= Occurrences(check_domains, d))
    /\ [](BuildDone => \A d \in Domains : calls[d] = Occurrences(check_domains, d))
    /\ [][BuildDone => (undocumented' = undocumented /\ calls' = calls)]_vars

C9_Witness ==
    /\ pc = "done"
    /\ check_domains = <<"py">>
    /\ calls["py"] = 1
    /\ undocumented["py"] # << >>
    /\ stdout # << >>

\* what one build_coverage(d) appends
SingleResult(d) ==
    find_undocumented(fs, check_package, d, domaindata[d], ignore_patterns).modules

\* C10: n completed invocations of build_coverage(d) leave d's entry equal
\* to the single-invocation result repeated n times, nothing deduplicated;
\* an invocation for one domain leaves the entries of the others unchanged.
C10_BuildCoverageAccumulates ==
    /\ [](error = "none" =>
            \A d \in DOMAIN undocumented :
                undocumented[d] = Repeat(SingleResult(d), calls[d]))
    /\ [][calls' # calls =>
            \A d \in DOMAIN undocumented :
                calls'[d] = calls[d] => undocumented'[d] = undocumented[d]]_vars

C10_Witness ==
    /\ error = "none"
    /\ calls["py"] = 2
    /\ SingleResult("py") # << >>
    /\ undocumented["py"] = SingleResult("py") \o SingleResult("py")

====
